---- MODULE Spec2Model ----
(***************************************************************************)
(* Transaction client of chainlink-solana: the synchronous and             *)
(* asynchronous send paths of solclient.Client (TXSync, TXAsync, queueTX,  *)
(* WaitForEvents), the error group that tracks background confirmations,   *)
(* and the duplicate-submission scenario of the pkg/solana client tests.   *)
(*                                                                         *)
(* Callers are goroutines that invoke the client's methods.  The remote    *)
(* node (ledger, RPC answers, websocket subscriptions) is the environment: *)
(* its steps are separate actions, and no fairness is assumed for them.    *)
(***************************************************************************)
EXTENDS Integers, Sequences, FiniteSets, TLC

\* Bounds of the model.
MaxTx == 2          \* number of TXSync/TXAsync calls made in one behaviour
MaxBlockhash == 2   \* number of distinct recent blockhashes the node serves
MaxDup == 3         \* number of concurrent senders of one signed transaction
MaxURLs == 2        \* longest endpoint list NewClient is given
MaxHashes == 4      \* number of answers the mocked genesis-hash server holds
MaxAddrs == 2       \* longest address list AirdropAddresses is given

\* Program constants.
Fee == 5000
LAMPORTS_PER_SOL == 1000000000

Callers == {"g1", "g2"}
Commitments == {"confirmed", "finalized"}
\* A transfer of one lamport to the payer itself, and one to an invalid
\* destination, which fails when the ledger executes it.
Instrs == {"selfTransfer", "badDest"}
Payer == "payer"

\* The account RequestAirdrop pays from.
Faucet == "faucet"

\* An address string given to Fund or AirdropAddresses: base58 of a public
\* key, or not.
AddrKinds == {"valid", "malformed"}

\* An endpoint URL of NetworkConfig.URLs: one that accepts connections, one
\* that nothing listens on, and one that is not a URL.
URLKinds == {"up", "down", "malformed"}

\* rpc.CommitmentType ordered by strength; a transaction the ledger has not
\* executed yet is at level 0.
CommitLevel(c) ==
  CASE c = "processed" -> 1
    [] c = "confirmed" -> 2
    [] c = "finalized" -> 3

\* Go error values: <<kind, origin>>; origin tells two errors of the same
\* kind apart (the task that produced it, 0 for a caller's own error).
NoErr == <<"nil", 0>>
Err(kind, origin) == <<kind, origin>>

\* The zero value of solana.Signature.
NoSig == <<>>

VARIABLES
  pc,          \* pc[c]: position of caller c inside the method it runs
  loc,         \* loc[c]: locals of the call in progress
  ret,         \* ret[c]: [op, err, res] of the call that last returned to c
  txErrGroup,  \* Client.txErrGroup: [wg, err]
  tasks,       \* goroutines started by txErrGroup.Go, in start order
  ledger,      \* remote node: signature -> [level, err, tx]
  blockhash,   \* remote node: the recent blockhash it serves (it advances
               \* in the duplicate-submission scenarios only)
  balance,     \* remote node: lamports of the payer
  nTx,         \* number of TXSync/TXAsync calls started
  firstFail,   \* the task whose error reached the group first (0: none)
  waitSnap,    \* waitSnap[c]: number of tasks registered when c invoked
               \* WaitForEvents
  dup,         \* the duplicate-submission test:
               \* [mode, hpc, n, tx, initBal, sender]
  reqs,        \* reqs[c]: requests issued by the TXSync/TXAsync call of c
               \* that is in progress or returned last:
               \* [blockhash, sign, send, subscribe, unsub]
  client,      \* the *Client NewClient returned: [state, URLs, ws]
  test         \* the reader and writer tests of the pkg/solana client:
               \* [mode, hashes, hashCounter, txs, step, results]

vars == <<pc, loc, ret, txErrGroup, tasks, ledger, blockhash, balance,
          nTx, firstFail, waitSnap, dup, reqs, client, test>>

envVars == <<ledger, blockhash, balance>>

scenVars == <<client, test>>

----------------------------------------------------------------------------
\* Pure helpers

\* solana.NewTransaction: instructions + recent blockhash + payer.
NewTransaction(instr, recent, payer) ==
  [instr |-> instr, blockhash |-> recent, payer |-> payer, sigs |-> <<>>]

\* ed25519 signing is deterministic: the signature of the payer over the
\* message (payer, blockhash, instructions).
SignatureOf(tx) == <<tx.payer, tx.blockhash, tx.instr>>

\* tx.Sign(signerFunc): fails when the resolver has no key for the payer.
Sign(tx, signerOk) ==
  IF signerOk
  THEN [ok |-> TRUE, tx |-> [tx EXCEPT !.sigs = <<SignatureOf(tx)>>]]
  ELSE [ok |-> FALSE, tx |-> tx]

EmptyLoc ==
  [commitment |-> "confirmed", tx |-> NewTransaction("selfTransfer", 0, Payer),
   sig |-> NoSig, sub |-> "none", seen |-> NoErr,
   addrs |-> <<>>, i |-> 0, mine |-> <<>>]

NoRet == [op |-> "none", err |-> NoErr, res |-> "none"]

NoReqs ==
  [blockhash |-> 0, sign |-> 0, send |-> 0, subscribe |-> 0, unsub |-> 0]

TaskIds == 1..Len(tasks)

\* A signature subscription on sig at this commitment has a result to
\* deliver.
Reached(sig, commitment) ==
  sig \in DOMAIN ledger /\ ledger[sig].level >= CommitLevel(commitment)

\* The node accepts a signed transaction: a signature it already knows is
\* not entered a second time.
Submit(l, tx) ==
  LET sig == tx.sigs[1] IN
  IF sig \in DOMAIN l THEN l
  ELSE [s \in DOMAIN l \cup {sig} |->
          IF s = sig THEN [level |-> 0, err |-> "none", tx |-> tx] ELSE l[s]]

\* Return of a method to its caller.
Return(c, op, err, res) ==
  /\ pc' = [pc EXCEPT ![c] = "idle"]
  /\ ret' = [ret EXCEPT ![c] = [op |-> op, err |-> err, res |-> res]]
  /\ loc' = [loc EXCEPT ![c] = EmptyLoc]

----------------------------------------------------------------------------
\* errgroup.Group, as used by queueTX and WaitForEvents

\* queueTX starting the goroutine without registering it in the group.
queueTXUntracked(g, ts, sig, commitment) ==
  [group |-> g,
   tasks |-> Append(ts, [sig |-> sig, commitment |-> commitment,
                         state |-> "subscribe", sub |-> "none",
                         unsub |-> 0, res |-> "none", err |-> NoErr])]

\* txErrGroup.Go(f): wg.Add(1) in the caller, then f runs in a new goroutine.
queueTX(g, ts, sig, commitment) ==
  [group |-> [g EXCEPT !.wg = g.wg + 1],
   tasks |-> Append(ts, [sig |-> sig, commitment |-> commitment,
                         state |-> "subscribe", sub |-> "none",
                         unsub |-> 0, res |-> "none", err |-> NoErr])]

\* The task function not inspecting res.Value.Err.
TaskResultUnchecked(res, t) == NoErr

\* The value the task function returns after sub.Recv() delivered res.
TaskResult(res, t) ==
  IF res = "err" THEN Err("exec", t) ELSE NoErr

\* The group keeping the last error instead of the first.
GroupDoneLastErr(g, err) ==
  [wg |-> g.wg - 1, err |-> IF err # NoErr THEN err ELSE g.err]

\* The group recording an error only of the task that finishes last.
GroupDoneOnlyWhenLast(g, err) ==
  [wg |-> g.wg - 1,
   err |-> IF err # NoErr /\ g.err = NoErr /\ g.wg = 1 THEN err ELSE g.err]

\* The group storing the result of every task, nil included.
GroupDoneOverwrite(g, err) == [wg |-> g.wg - 1, err |-> err]

\* The wrapper recording the error and not calling wg.Done.
GroupDoneNoDone(g, err) ==
  [wg |-> g.wg,
   err |-> IF err # NoErr /\ g.err = NoErr THEN err ELSE g.err]

\* The wrapper of errgroup.Go after f returned err: errOnce, then wg.Done.
GroupDone(g, err) ==
  [wg |-> g.wg - 1,
   err |-> IF err # NoErr /\ g.err = NoErr THEN err ELSE g.err]

----------------------------------------------------------------------------
\* Client.TXSync

\* The call up to the signed transaction:
\* c.RPC.GetRecentBlockhash(ctx, rpc.CommitmentFinalized),
\* solana.NewTransaction, tx.EncodeTree, tx.Sign(signerFunc).
TXSyncCall(c) ==
  /\ pc[c] = "idle"
  /\ nTx < MaxTx
  /\ nTx' = nTx + 1
  /\ waitSnap' = [waitSnap EXCEPT ![c] = 0]
  /\ \E cm \in Commitments, i \in Instrs, signerOk \in BOOLEAN :
       \/ /\ Return(c, "TXSync", Err("rpc", 0), "none")
          /\ reqs' = [reqs EXCEPT ![c] = [NoReqs EXCEPT !.blockhash = 1]]
       \/ LET s == Sign(NewTransaction(i, blockhash, Payer), signerOk) IN
            /\ reqs' = [reqs EXCEPT ![c] =
                          [NoReqs EXCEPT !.blockhash = 1, !.sign = 1]]
            /\ IF s.ok
               THEN /\ loc' = [loc EXCEPT ![c].commitment = cm,
                                          ![c].tx = s.tx]
                    /\ pc' = [pc EXCEPT ![c] = "sync_send"]
                    /\ ret' = [ret EXCEPT ![c] = NoRet]
               ELSE Return(c, "TXSync", Err("sign", 0), "none")
  /\ UNCHANGED <<txErrGroup, tasks, envVars, firstFail, dup, scenVars>>

\* TXSync submitting the transaction and, as a retry, a copy re-signed over
\* the blockhash the node serves by then.
TXSyncSendRetry(c) ==
  /\ pc[c] = "sync_send"
  /\ \/ /\ ledger' = Submit(Submit(ledger, loc[c].tx),
                            Sign(NewTransaction(loc[c].tx.instr, blockhash,
                                                loc[c].tx.payer), TRUE).tx)
        /\ loc' = [loc EXCEPT ![c].sig = loc[c].tx.sigs[1]]
        /\ pc' = [pc EXCEPT ![c] = "sync_subscribe"]
        /\ reqs' = [reqs EXCEPT ![c].send = @ + 2]
        /\ UNCHANGED ret
     \/ /\ Return(c, "TXSync", Err("send", 0), "none")
        /\ reqs' = [reqs EXCEPT ![c].send = @ + 1]
        /\ UNCHANGED ledger
  /\ UNCHANGED <<txErrGroup, tasks, blockhash, balance, nTx, firstFail,
                 waitSnap, dup, scenVars>>

\* TXSync opening the subscription before it submits.
TXSyncSendSubscribeFirst(c) ==
  /\ pc[c] = "sync_send"
  /\ \/ /\ ledger' = Submit(ledger, loc[c].tx)
        /\ loc' = [loc EXCEPT ![c].sig = loc[c].tx.sigs[1],
                              ![c].sub = loc[c].commitment]
        /\ pc' = [pc EXCEPT ![c] = "sync_recv"]
        /\ reqs' = [reqs EXCEPT ![c].send = @ + 1, ![c].subscribe = @ + 1]
        /\ UNCHANGED ret
     \/ /\ Return(c, "TXSync", Err("subscribe", 0), "none")
        /\ reqs' = [reqs EXCEPT ![c].subscribe = @ + 1]
        /\ UNCHANGED ledger
     \/ /\ Return(c, "TXSync", Err("send", 0), "none")
        /\ reqs' = [reqs EXCEPT ![c].send = @ + 1, ![c].subscribe = @ + 1]
        /\ UNCHANGED ledger
  /\ UNCHANGED <<txErrGroup, tasks, blockhash, balance, nTx, firstFail,
                 waitSnap, dup, scenVars>>

\* c.RPC.SendTransactionWithOpts(ctx, tx, false, commitment)
TXSyncSend(c) ==
  /\ pc[c] = "sync_send"
  /\ reqs' = [reqs EXCEPT ![c].send = @ + 1]
  /\ \/ /\ ledger' = Submit(ledger, loc[c].tx)
        /\ loc' = [loc EXCEPT ![c].sig = loc[c].tx.sigs[1]]
        /\ pc' = [pc EXCEPT ![c] = "sync_subscribe"]
        /\ UNCHANGED ret
     \/ /\ Return(c, "TXSync", Err("send", 0), "none")
        /\ UNCHANGED ledger
  /\ UNCHANGED <<txErrGroup, tasks, blockhash, balance, nTx, firstFail,
                 waitSnap, dup, scenVars>>

\* TXSync subscribing at the commitment queueTX uses, not the caller's.
TXSyncSubscribeConfirmed(c) ==
  /\ pc[c] = "sync_subscribe"
  /\ reqs' = [reqs EXCEPT ![c].subscribe = @ + 1]
  /\ \/ /\ loc' = [loc EXCEPT ![c].sub = "confirmed"]
        /\ pc' = [pc EXCEPT ![c] = "sync_recv"]
        /\ UNCHANGED ret
     \/ /\ Return(c, "TXSync", Err("subscribe", 0), "none")
  /\ UNCHANGED <<txErrGroup, tasks, envVars, nTx, firstFail, waitSnap, dup,
                 scenVars>>

\* TXSync subscribing a second time when the first subscription failed.
TXSyncSubscribeRetry(c) ==
  /\ pc[c] = "sync_subscribe"
  /\ \/ /\ loc' = [loc EXCEPT ![c].sub = loc[c].commitment]
        /\ pc' = [pc EXCEPT ![c] = "sync_recv"]
        /\ reqs' = [reqs EXCEPT ![c].subscribe = @ + 1]
        /\ UNCHANGED ret
     \/ /\ loc' = [loc EXCEPT ![c].sub = loc[c].commitment]
        /\ pc' = [pc EXCEPT ![c] = "sync_recv"]
        /\ reqs' = [reqs EXCEPT ![c].subscribe = @ + 2]
        /\ UNCHANGED ret
     \/ /\ Return(c, "TXSync", Err("subscribe", 0), "none")
        /\ reqs' = [reqs EXCEPT ![c].subscribe = @ + 2]
  /\ UNCHANGED <<txErrGroup, tasks, envVars, nTx, firstFail, waitSnap, dup,
                 scenVars>>

\* c.WS.SignatureSubscribe(sig, commitment)
TXSyncSubscribe(c) ==
  /\ pc[c] = "sync_subscribe"
  /\ reqs' = [reqs EXCEPT ![c].subscribe = @ + 1]
  /\ \/ /\ loc' = [loc EXCEPT ![c].sub = loc[c].commitment]
        /\ pc' = [pc EXCEPT ![c] = "sync_recv"]
        /\ UNCHANGED ret
     \/ /\ Return(c, "TXSync", Err("subscribe", 0), "none")
  /\ UNCHANGED <<txErrGroup, tasks, envVars, nTx, firstFail, waitSnap, dup,
                 scenVars>>

\* TXSync recording the error of Recv in the error group of the client.
TXSyncRecvRecord(c) ==
  /\ pc[c] = "sync_recv"
  /\ reqs' = [reqs EXCEPT ![c].unsub = @ + 1]
  /\ \/ /\ loc[c].sub = "err"
        /\ Return(c, "TXSync", Err("recv", 0), "none")
        /\ txErrGroup' = [txErrGroup EXCEPT !.err =
                            IF @ = NoErr THEN Err("recv", 0) ELSE @]
     \/ /\ loc[c].sub \in Commitments
        /\ Reached(loc[c].sig, loc[c].sub)
        /\ Return(c, "TXSync", NoErr, ledger[loc[c].sig].err)
        /\ UNCHANGED txErrGroup
  /\ UNCHANGED <<tasks, envVars, nTx, firstFail, waitSnap, dup, scenVars>>

\* sub.Recv() returns, the deferred sub.Unsubscribe() runs, TXSync returns.
\* Recv blocks until the subscription delivers a result or an error; the
\* result's Value.Err is logged and not inspected.
TXSyncRecv(c) ==
  /\ pc[c] = "sync_recv"
  /\ reqs' = [reqs EXCEPT ![c].unsub = @ + 1]
  /\ \/ /\ loc[c].sub = "err"
        /\ Return(c, "TXSync", Err("recv", 0), "none")
     \/ /\ loc[c].sub \in Commitments
        /\ Reached(loc[c].sig, loc[c].sub)
        /\ Return(c, "TXSync", NoErr, ledger[loc[c].sig].err)
  /\ UNCHANGED <<txErrGroup, tasks, envVars, nTx, firstFail, waitSnap, dup,
                 scenVars>>

----------------------------------------------------------------------------
\* Client.TXAsync and Client.queueTX

\* TXAsync signing a second time when the resolver returned no key.
TXAsyncCallSignRetry(c) ==
  /\ pc[c] = "idle"
  /\ nTx < MaxTx
  /\ nTx' = nTx + 1
  /\ waitSnap' = [waitSnap EXCEPT ![c] = 0]
  /\ \E i \in Instrs, signerOk \in BOOLEAN :
       \/ /\ Return(c, "TXAsync", Err("rpc", 0), "none")
          /\ reqs' = [reqs EXCEPT ![c] = [NoReqs EXCEPT !.blockhash = 1]]
       \/ LET s == Sign(NewTransaction(i, blockhash, Payer), signerOk) IN
            IF s.ok
            THEN /\ reqs' = [reqs EXCEPT ![c] =
                               [NoReqs EXCEPT !.blockhash = 1, !.sign = 1]]
                 /\ loc' = [loc EXCEPT ![c].tx = s.tx]
                 /\ pc' = [pc EXCEPT ![c] = "async_send"]
                 /\ ret' = [ret EXCEPT ![c] = NoRet]
            ELSE /\ reqs' = [reqs EXCEPT ![c] =
                               [NoReqs EXCEPT !.blockhash = 1, !.sign = 2]]
                 /\ Return(c, "TXAsync", Err("sign", 0), "none")
  /\ UNCHANGED <<txErrGroup, tasks, envVars, firstFail, dup, scenVars>>

\* The call up to the signed transaction, as in TXSync.
TXAsyncCall(c) ==
  /\ pc[c] = "idle"
  /\ nTx < MaxTx
  /\ nTx' = nTx + 1
  /\ waitSnap' = [waitSnap EXCEPT ![c] = 0]
  /\ \E i \in Instrs, signerOk \in BOOLEAN :
       \/ /\ Return(c, "TXAsync", Err("rpc", 0), "none")
          /\ reqs' = [reqs EXCEPT ![c] = [NoReqs EXCEPT !.blockhash = 1]]
       \/ LET s == Sign(NewTransaction(i, blockhash, Payer), signerOk) IN
            /\ reqs' = [reqs EXCEPT ![c] =
                          [NoReqs EXCEPT !.blockhash = 1, !.sign = 1]]
            /\ IF s.ok
               THEN /\ loc' = [loc EXCEPT ![c].tx = s.tx]
                    /\ pc' = [pc EXCEPT ![c] = "async_send"]
                    /\ ret' = [ret EXCEPT ![c] = NoRet]
               ELSE Return(c, "TXAsync", Err("sign", 0), "none")
  /\ UNCHANGED <<txErrGroup, tasks, envVars, firstFail, dup, scenVars>>

\* c.RPC.SendTransaction(ctx, tx)
TXAsyncSend(c) ==
  /\ pc[c] = "async_send"
  /\ reqs' = [reqs EXCEPT ![c].send = @ + 1]
  /\ \/ /\ ledger' = Submit(ledger, loc[c].tx)
        /\ loc' = [loc EXCEPT ![c].sig = loc[c].tx.sigs[1]]
        /\ pc' = [pc EXCEPT ![c] = "async_queue"]
        /\ UNCHANGED ret
     \/ /\ Return(c, "TXAsync", Err("send", 0), "none")
        /\ UNCHANGED ledger
  /\ UNCHANGED <<txErrGroup, tasks, blockhash, balance, nTx, firstFail,
                 waitSnap, dup, scenVars>>

\* TXAsync joining the group before it registers its own task.
TXAsyncQueueSerial(c) ==
  /\ pc[c] = "async_queue"
  /\ txErrGroup.wg = 0
  /\ LET q == queueTX(txErrGroup, tasks, loc[c].sig, "confirmed") IN
       /\ txErrGroup' = q.group
       /\ tasks' = q.tasks
  /\ Return(c, "TXAsync", NoErr, "none")
  /\ UNCHANGED <<envVars, nTx, firstFail, waitSnap, dup, reqs, scenVars>>

\* TXAsync returning the error the group holds.
TXAsyncQueueSurface(c) ==
  /\ pc[c] = "async_queue"
  /\ LET q == queueTX(txErrGroup, tasks, loc[c].sig, "confirmed") IN
       /\ txErrGroup' = q.group
       /\ tasks' = q.tasks
  /\ Return(c, "TXAsync", txErrGroup.err, "none")
  /\ UNCHANGED <<envVars, nTx, firstFail, waitSnap, dup, reqs, scenVars>>

\* c.queueTX(sig, rpc.CommitmentConfirmed); return nil
TXAsyncQueue(c) ==
  /\ pc[c] = "async_queue"
  /\ LET q == queueTX(txErrGroup, tasks, loc[c].sig, "confirmed") IN
       /\ txErrGroup' = q.group
       /\ tasks' = q.tasks
  /\ Return(c, "TXAsync", NoErr, "none")
  /\ UNCHANGED <<envVars, nTx, firstFail, waitSnap, dup, reqs, scenVars>>

\* A task function returned err: the deferred sub.Unsubscribe() has run
\* when the function had a subscription (sub is then "closed"), the group
\* records err and counts the task done.
TaskReturn(t, sub, res, err) ==
  /\ tasks' = [tasks EXCEPT ![t].state = "done", ![t].sub = sub,
                            ![t].unsub = IF sub = "closed" THEN @ + 1 ELSE @,
                            ![t].res = res, ![t].err = err]
  /\ txErrGroup' = GroupDone(txErrGroup, err)
  /\ firstFail' = IF err # NoErr /\ firstFail = 0 THEN t ELSE firstFail

\* The goroutine of queueTX: c.WS.SignatureSubscribe(sig, commitment)
TaskSubscribe(t) ==
  /\ t \in TaskIds
  /\ tasks[t].state = "subscribe"
  /\ \/ /\ tasks' = [tasks EXCEPT ![t].state = "recv",
                                  ![t].sub = tasks[t].commitment]
        /\ UNCHANGED <<txErrGroup, firstFail>>
     \/ TaskReturn(t, "none", "none", Err("subscribe", t))
  /\ UNCHANGED <<pc, loc, ret, envVars, nTx, waitSnap, dup, reqs, scenVars>>

\* The goroutine returning the error of Recv without unsubscribing.
TaskRecvLeak(t) ==
  /\ t \in TaskIds
  /\ tasks[t].state = "recv"
  /\ \/ /\ tasks[t].sub = "err"
        /\ TaskReturn(t, "err", "none", Err("recv", t))
     \/ /\ tasks[t].sub \in Commitments
        /\ Reached(tasks[t].sig, tasks[t].sub)
        /\ LET res == ledger[tasks[t].sig].err IN
             TaskReturn(t, "closed", res, TaskResult(res, t))
  /\ UNCHANGED <<pc, loc, ret, envVars, nTx, waitSnap, dup, reqs, scenVars>>

\* The goroutine of queueTX: sub.Recv() returns, the deferred
\* sub.Unsubscribe() runs and the function returns.
TaskRecv(t) ==
  /\ t \in TaskIds
  /\ tasks[t].state = "recv"
  /\ \/ /\ tasks[t].sub = "err"
        /\ TaskReturn(t, "closed", "none", Err("recv", t))
     \/ /\ tasks[t].sub \in Commitments
        /\ Reached(tasks[t].sig, tasks[t].sub)
        /\ LET res == ledger[tasks[t].sig].err IN
             TaskReturn(t, "closed", res, TaskResult(res, t))
  /\ UNCHANGED <<pc, loc, ret, envVars, nTx, waitSnap, dup, reqs, scenVars>>

----------------------------------------------------------------------------
\* Client.WaitForEvents: return c.txErrGroup.Wait()

WaitForEventsCall(c) ==
  /\ pc[c] = "idle"
  /\ pc' = [pc EXCEPT ![c] = "wait"]
  /\ ret' = [ret EXCEPT ![c] = NoRet]
  /\ waitSnap' = [waitSnap EXCEPT ![c] = Len(tasks)]
  /\ reqs' = [reqs EXCEPT ![c] = NoReqs]
  /\ UNCHANGED <<loc, txErrGroup, tasks, envVars, nTx, firstFail, dup,
                 scenVars>>

\* g.wg.Wait() not blocking.
WaitForEventsWakeEarly(c) ==
  /\ pc[c] = "wait"
  /\ pc' = [pc EXCEPT ![c] = "wait_ret"]
  /\ loc' = [loc EXCEPT ![c].seen = txErrGroup.err]
  /\ UNCHANGED <<ret, txErrGroup, tasks, envVars, nTx, firstFail, waitSnap,
                 dup, reqs, scenVars>>

\* g.wg.Wait() unblocks when the counter is zero.
WaitForEventsWake(c) ==
  /\ pc[c] = "wait"
  /\ txErrGroup.wg = 0
  /\ pc' = [pc EXCEPT ![c] = "wait_ret"]
  /\ loc' = [loc EXCEPT ![c].seen = txErrGroup.err]
  /\ UNCHANGED <<ret, txErrGroup, tasks, envVars, nTx, firstFail, waitSnap,
                 dup, reqs, scenVars>>

\* return g.err.  A task started after the counter was seen at zero writes
\* g.err without synchronisation with this read: the read yields the value
\* at wake-up or the current one.
WaitForEventsReturn(c) ==
  /\ pc[c] = "wait_ret"
  /\ \E e \in {loc[c].seen, txErrGroup.err} :
       Return(c, "WaitForEvents", e, "none")
  /\ UNCHANGED <<txErrGroup, tasks, envVars, nTx, firstFail, waitSnap, dup,
                 reqs, scenVars>>

----------------------------------------------------------------------------
\* Client.Airdrop, Client.Fund, Client.AirdropAddresses

\* The transaction the faucet creates for an airdrop request; n is the
\* number of transactions the node holds, so that no two requests give
\* the same signature.
AirdropTx(n) == Sign(NewTransaction("airdrop", n + 1, Faucet), TRUE).tx

\* c.RPC.RequestAirdrop(ctx, wpk, LAMPORTS_PER_SOL*solAmount,
\* CommitmentConfirmed) returning a signature: the node has entered the
\* faucet's transaction.
RequestAirdrop(c) ==
  LET tx == AirdropTx(Cardinality(DOMAIN ledger)) IN
    /\ ledger' = Submit(ledger, tx)
    /\ loc' = [loc EXCEPT ![c].sig = tx.sigs[1]]

\* Airdrop registering its confirmation task before the request is
\* answered.
AirdropCallQueueFirst(c) ==
  /\ pc[c] = "idle"
  /\ nTx < MaxTx
  /\ nTx' = nTx + 1
  /\ waitSnap' = [waitSnap EXCEPT ![c] = 0]
  /\ reqs' = [reqs EXCEPT ![c] = [NoReqs EXCEPT !.send = 1]]
  /\ \/ /\ Return(c, "Airdrop", Err("rpc", 0), "none")
        /\ LET q == queueTX(txErrGroup, tasks, NoSig, "confirmed") IN
             /\ txErrGroup' = q.group
             /\ tasks' = q.tasks
        /\ UNCHANGED ledger
     \/ /\ RequestAirdrop(c)
        /\ pc' = [pc EXCEPT ![c] = "airdrop_queue"]
        /\ ret' = [ret EXCEPT ![c] = NoRet]
        /\ UNCHANGED <<txErrGroup, tasks>>
  /\ UNCHANGED <<blockhash, balance, firstFail, dup, scenVars>>

\* Airdrop(wpk, solAmount): the request; its error is returned.
AirdropCall(c) ==
  /\ pc[c] = "idle"
  /\ nTx < MaxTx
  /\ nTx' = nTx + 1
  /\ waitSnap' = [waitSnap EXCEPT ![c] = 0]
  /\ reqs' = [reqs EXCEPT ![c] = [NoReqs EXCEPT !.send = 1]]
  /\ \/ /\ Return(c, "Airdrop", Err("rpc", 0), "none")
        /\ UNCHANGED ledger
     \/ /\ RequestAirdrop(c)
        /\ pc' = [pc EXCEPT ![c] = "airdrop_queue"]
        /\ ret' = [ret EXCEPT ![c] = NoRet]
  /\ UNCHANGED <<txErrGroup, tasks, blockhash, balance, firstFail, dup,
                 scenVars>>

\* c.queueTX(txHash, rpc.CommitmentConfirmed); return nil
AirdropQueue(c) ==
  /\ pc[c] = "airdrop_queue"
  /\ LET q == queueTX(txErrGroup, tasks, loc[c].sig, "confirmed") IN
       /\ txErrGroup' = q.group
       /\ tasks' = q.tasks
  /\ Return(c, "Airdrop", NoErr, "none")
  /\ UNCHANGED <<envVars, nTx, firstFail, waitSnap, dup, reqs, scenVars>>

\* Fund(toAddress, amount): solana.PublicKeyFromBase58(toAddress), then the
\* request as in Airdrop.
FundCall(c) ==
  /\ pc[c] = "idle"
  /\ nTx < MaxTx
  /\ nTx' = nTx + 1
  /\ waitSnap' = [waitSnap EXCEPT ![c] = 0]
  /\ \E a \in AddrKinds :
       IF a = "malformed"
       THEN /\ Return(c, "Fund", Err("parse", 0), "none")
            /\ reqs' = [reqs EXCEPT ![c] = NoReqs]
            /\ UNCHANGED ledger
       ELSE /\ reqs' = [reqs EXCEPT ![c] = [NoReqs EXCEPT !.send = 1]]
            /\ \/ /\ Return(c, "Fund", Err("rpc", 0), "none")
                  /\ UNCHANGED ledger
               \/ /\ RequestAirdrop(c)
                  /\ pc' = [pc EXCEPT ![c] = "fund_queue"]
                  /\ ret' = [ret EXCEPT ![c] = NoRet]
  /\ UNCHANGED <<txErrGroup, tasks, blockhash, balance, firstFail, dup,
                 scenVars>>

\* c.queueTX(txHash, rpc.CommitmentConfirmed); return nil
FundQueue(c) ==
  /\ pc[c] = "fund_queue"
  /\ LET q == queueTX(txErrGroup, tasks, loc[c].sig, "confirmed") IN
       /\ txErrGroup' = q.group
       /\ tasks' = q.tasks
  /\ Return(c, "Fund", NoErr, "none")
  /\ UNCHANGED <<envVars, nTx, firstFail, waitSnap, dup, reqs, scenVars>>

\* AirdropAddresses(addr, solAmount) entered with its address list.
AirdropAddressesCall(c) ==
  /\ pc[c] = "idle"
  /\ \E n \in 0..MaxAddrs : \E addr \in [1..n -> AddrKinds] :
       /\ nTx + n <= MaxTx
       /\ nTx' = nTx + n
       /\ loc' = [loc EXCEPT ![c].addrs = addr, ![c].i = 1, ![c].mine = <<>>]
  /\ pc' = [pc EXCEPT ![c] = "aa_loop"]
  /\ ret' = [ret EXCEPT ![c] = NoRet]
  /\ waitSnap' = [waitSnap EXCEPT ![c] = 0]
  /\ reqs' = [reqs EXCEPT ![c] = NoReqs]
  /\ UNCHANGED <<txErrGroup, tasks, envVars, firstFail, dup, scenVars>>

\* The loop skipping an address it cannot parse.
AirdropAddressesStepSkip(c) ==
  /\ pc[c] = "aa_loop"
  /\ IF loc[c].i > Len(loc[c].addrs)
     THEN /\ pc' = [pc EXCEPT ![c] = "aa_wait"]
          /\ waitSnap' = [waitSnap EXCEPT ![c] = Len(tasks)]
          /\ UNCHANGED <<loc, ret, ledger, reqs>>
     ELSE IF loc[c].addrs[loc[c].i] = "malformed"
     THEN /\ loc' = [loc EXCEPT ![c].i = @ + 1]
          /\ UNCHANGED <<pc, ret, ledger, waitSnap, reqs>>
     ELSE /\ reqs' = [reqs EXCEPT ![c].send = @ + 1]
          /\ UNCHANGED waitSnap
          /\ \/ /\ Return(c, "AirdropAddresses", Err("rpc", 0), "none")
                /\ UNCHANGED ledger
             \/ /\ RequestAirdrop(c)
                /\ pc' = [pc EXCEPT ![c] = "aa_queue"]
                /\ UNCHANGED ret
  /\ UNCHANGED <<txErrGroup, tasks, blockhash, balance, nTx, firstFail, dup,
                 scenVars>>

\* One turn of the loop up to the airdrop request: the parse error and the
\* request error are returned from inside the loop; after the last address
\* the method enters c.WaitForEvents().
AirdropAddressesStep(c) ==
  /\ pc[c] = "aa_loop"
  /\ IF loc[c].i > Len(loc[c].addrs)
     THEN /\ pc' = [pc EXCEPT ![c] = "aa_wait"]
          /\ waitSnap' = [waitSnap EXCEPT ![c] = Len(tasks)]
          /\ UNCHANGED <<loc, ret, ledger, reqs>>
     ELSE IF loc[c].addrs[loc[c].i] = "malformed"
     THEN /\ Return(c, "AirdropAddresses", Err("parse", 0), "none")
          /\ UNCHANGED <<ledger, waitSnap, reqs>>
     ELSE /\ reqs' = [reqs EXCEPT ![c].send = @ + 1]
          /\ UNCHANGED waitSnap
          /\ \/ /\ Return(c, "AirdropAddresses", Err("rpc", 0), "none")
                /\ UNCHANGED ledger
             \/ /\ RequestAirdrop(c)
                /\ pc' = [pc EXCEPT ![c] = "aa_queue"]
                /\ UNCHANGED ret
  /\ UNCHANGED <<txErrGroup, tasks, blockhash, balance, nTx, firstFail, dup,
                 scenVars>>

\* The rest of the turn: Airdrop's queueTX, then the next address.
AirdropAddressesQueue(c) ==
  /\ pc[c] = "aa_queue"
  /\ LET q == queueTX(txErrGroup, tasks, loc[c].sig, "confirmed") IN
       /\ txErrGroup' = q.group
       /\ tasks' = q.tasks
  /\ loc' = [loc EXCEPT ![c].i = @ + 1,
                        ![c].mine = Append(@, Len(tasks) + 1)]
  /\ pc' = [pc EXCEPT ![c] = "aa_loop"]
  /\ UNCHANGED <<ret, envVars, nTx, firstFail, waitSnap, dup, reqs,
                 scenVars>>

\* return c.WaitForEvents(): g.wg.Wait() unblocks at zero.
AirdropAddressesWait(c) ==
  /\ pc[c] = "aa_wait"
  /\ txErrGroup.wg = 0
  /\ pc' = [pc EXCEPT ![c] = "aa_wait_ret"]
  /\ loc' = [loc EXCEPT ![c].seen = txErrGroup.err]
  /\ UNCHANGED <<ret, txErrGroup, tasks, envVars, nTx, firstFail, waitSnap,
                 dup, reqs, scenVars>>

\* return g.err, read as in WaitForEventsReturn.
AirdropAddressesReturn(c) ==
  /\ pc[c] = "aa_wait_ret"
  /\ \E e \in {loc[c].seen, txErrGroup.err} :
       Return(c, "AirdropAddresses", e, "none")
  /\ UNCHANGED <<txErrGroup, tasks, envVars, nTx, firstFail, waitSnap, dup,
                 reqs, scenVars>>

----------------------------------------------------------------------------
\* The remote node

\* The ledger executes a submitted transaction once and charges the fee to
\* its payer; a transfer to an invalid destination fails, a self-transfer
\* moves its lamport from the payer to the payer, an airdrop is paid by the
\* faucet.
Execute(sig) ==
  /\ sig \in DOMAIN ledger
  /\ ledger[sig].level = 0
  /\ LET ok == ledger[sig].tx.instr # "badDest" IN
       /\ ledger' = [ledger EXCEPT ![sig].level = 1,
                                   ![sig].err = IF ok THEN "ok" ELSE "err"]
       /\ balance' = IF ledger[sig].tx.payer # Payer THEN balance
                     ELSE IF ok THEN balance - Fee - 1 + 1 ELSE balance - Fee
  /\ UNCHANGED <<pc, loc, ret, txErrGroup, tasks, blockhash, nTx, firstFail,
                 waitSnap, dup, reqs, scenVars>>

\* A processed transaction becomes confirmed, a confirmed one finalized.
Advance(sig) ==
  /\ sig \in DOMAIN ledger
  /\ ledger[sig].level \in {1, 2}
  /\ ledger' = [ledger EXCEPT ![sig].level = @ + 1]
  /\ UNCHANGED <<pc, loc, ret, txErrGroup, tasks, blockhash, balance, nTx,
                 firstFail, waitSnap, dup, reqs, scenVars>>

NewBlock ==
  /\ blockhash < MaxBlockhash
  /\ blockhash' = blockhash + 1
  /\ UNCHANGED <<pc, loc, ret, txErrGroup, tasks, ledger, balance, nTx,
                 firstFail, waitSnap, dup, reqs, scenVars>>

\* The websocket reports an error on an open subscription.
WSFailSync(c) ==
  /\ pc[c] = "sync_recv"
  /\ loc[c].sub \in Commitments
  /\ loc' = [loc EXCEPT ![c].sub = "err"]
  /\ UNCHANGED <<pc, ret, txErrGroup, tasks, envVars, nTx, firstFail,
                 waitSnap, dup, reqs, scenVars>>

WSFailTask(t) ==
  /\ tasks[t].state = "recv"
  /\ tasks[t].sub \in Commitments
  /\ tasks' = [tasks EXCEPT ![t].sub = "err"]
  /\ UNCHANGED <<pc, loc, ret, txErrGroup, envVars, nTx, firstFail,
                 waitSnap, dup, reqs, scenVars>>

----------------------------------------------------------------------------
\* The duplicate-submission test of the pkg/solana client: one transaction
\* is created and signed once, and dup.n goroutines submit it with SendTx.

NoDup ==
  [mode |-> "none", hpc |-> "start", n |-> 0,
   tx |-> NewTransaction("selfTransfer", 0, Payer), initBal |-> 0,
   sender |-> <<>>]

\* SendTx re-stamping the transaction with the blockhash the node serves at
\* the time of the submission, and signing it again.
SendTxRefresh(tx, recent) ==
  Sign(NewTransaction(tx.instr, recent, tx.payer), TRUE).tx

\* Client.SendTx(ctx, tx): the transaction handed to the node is the
\* caller's signed transaction as it is.
SendTx(tx, recent) == tx

\* c.LatestBlockhash(), c.Balance(pubKey), solana.NewTransaction of a
\* transfer of 1 lamport from the payer to itself, tx.Sign.
DupCreateTx ==
  /\ dup.mode = "dup"
  /\ dup.hpc = "start"
  /\ dup' = [dup EXCEPT
       !.hpc = "sending",
       !.initBal = balance,
       !.tx = Sign(NewTransaction("selfTransfer", blockhash, Payer), TRUE).tx,
       !.sender = [i \in 1..dup.n |->
                     [pc |-> "sleep", sig |-> NoSig, err |-> NoErr]]]
  /\ UNCHANGED <<pc, loc, ret, txErrGroup, tasks, envVars, nTx, firstFail,
                 waitSnap, reqs, scenVars>>

\* Goroutine i: sig, err := c.SendTx(ctx, tx); sigs[i] = sig; wg.Done().
\* The node answers with the first signature of the transaction it
\* received, or the request fails.  The goroutines share tx by pointer:
\* what SendTx does to it is what the others send.
DupSendTx(i) ==
  /\ dup.hpc = "sending"
  /\ i \in 1..dup.n
  /\ dup.sender[i].pc = "sleep"
  /\ \/ LET sent == SendTx(dup.tx, blockhash) IN
          /\ ledger' = Submit(ledger, sent)
          /\ dup' = [dup EXCEPT
                       !.tx = sent,
                       !.sender[i] =
                         [pc |-> "done", sig |-> sent.sigs[1], err |-> NoErr]]
     \/ /\ dup' = [dup EXCEPT !.sender[i] =
                     [pc |-> "done", sig |-> NoSig, err |-> Err("send", 0)]]
        /\ UNCHANGED ledger
  /\ UNCHANGED <<pc, loc, ret, txErrGroup, tasks, blockhash, balance, nTx,
                 firstFail, waitSnap, reqs, scenVars>>

\* wg.Wait() of the test returns when every goroutine is done.
DupJoin ==
  /\ dup.hpc = "sending"
  /\ \A i \in 1..dup.n : dup.sender[i].pc = "done"
  /\ dup' = [dup EXCEPT !.hpc = "joined"]
  /\ UNCHANGED <<pc, loc, ret, txErrGroup, tasks, envVars, nTx, firstFail,
                 waitSnap, reqs, scenVars>>

----------------------------------------------------------------------------
\* NewClient(cfg)

NoClient == [state |-> "none", URLs |-> <<>>, ws |-> "none"]

\* The client of the send-path scenarios: built from an RPC URL and a
\* websocket URL that both answer.
DefaultClient == [state |-> "ok", URLs |-> <<"up", "up">>, ws |-> "connected"]

\* NewClient returning the client without connecting the websocket.
NewClientLazy ==
  /\ client.state = "none"
  /\ IF Len(client.URLs) < 2
     THEN /\ client' = [client EXCEPT !.state = "panic"]
          /\ UNCHANGED <<txErrGroup, tasks>>
     ELSE /\ client' = [client EXCEPT !.state = "ok"]
          /\ txErrGroup' = [wg |-> 0, err |-> NoErr]
          /\ tasks' = <<>>
  /\ UNCHANGED <<pc, loc, ret, envVars, nTx, firstFail, waitSnap, dup, reqs,
                 test>>

\* c := rpc.New(cfg.URLs[0]); wsc, err := ws.Connect(ctx, cfg.URLs[1]);
\* return nil, err or &Client{..., txErrGroup: errgroup.Group{}}.
\* Indexing cfg.URLs beyond its length is a run-time panic; rpc.New
\* returns no error, whatever the URL.
NewClient ==
  /\ client.state = "none"
  /\ IF Len(client.URLs) < 2
     THEN /\ client' = [client EXCEPT !.state = "panic"]
          /\ UNCHANGED <<txErrGroup, tasks>>
     ELSE IF client.URLs[2] = "up"
          THEN /\ client' = [client EXCEPT !.state = "ok",
                                            !.ws = "connected"]
               /\ txErrGroup' = [wg |-> 0, err |-> NoErr]
               /\ tasks' = <<>>
          ELSE /\ client' = [client EXCEPT !.state = "error"]
               /\ UNCHANGED <<txErrGroup, tasks>>
  /\ UNCHANGED <<pc, loc, ret, envVars, nTx, firstFail, waitSnap, dup, reqs,
                 test>>

----------------------------------------------------------------------------
\* The reader and writer tests of the pkg/solana client

NoTest ==
  [mode |-> "none", hashes |-> <<>>, hashCounter |-> 0, txs |-> <<>>,
   step |-> 0, results |-> <<>>]

\* The genesis hashes of the public networks, by the names the client
\* package gives them, and two hashes of local test ledgers.
DevnetGenesisHash == "DevnetGenesisHash"
TestnetGenesisHash == "TestnetGenesisHash"
MainnetGenesisHash == "MainnetGenesisHash"
GenesisHashes ==
  {DevnetGenesisHash, TestnetGenesisHash, MainnetGenesisHash,
   "GH7ome3EiwEr7tu9JuTh2dpYWBJK3z69Xm1ZE3MEE6JC", "LocalnetGenesisHash"}

\* The lookup falling back to mainnet for a hash it does not know.
NetworkNameDefaultMainnet(hash) ==
  CASE hash = DevnetGenesisHash -> "devnet"
    [] hash = TestnetGenesisHash -> "testnet"
    [] OTHER -> "mainnet"

\* The network a genesis hash stands for.
NetworkName(hash) ==
  CASE hash = DevnetGenesisHash -> "devnet"
    [] hash = TestnetGenesisHash -> "testnet"
    [] hash = MainnetGenesisHash -> "mainnet"
    [] OTHER -> "localnet"

\* A result the test got from the client: the operation, the transaction
\* it was about (0: none), the number of RPC requests the call issued,
\* whether the node answered, the raw answer, and the returned (val, err).
Result(op, k, n, answered, got, err, val) ==
  [op |-> op, k |-> k, n |-> n, answered |-> answered, got |-> got,
   err |-> err, val |-> val]

\* ChainID answering from the first network name it resolved.
ChainIDCached ==
  /\ test.mode = "chainid"
  /\ test.hashCounter < Len(test.hashes)
  /\ Len(test.results) < MaxHashes
  /\ IF test.results # <<>> /\ test.results[1].answered
     THEN test' = [test EXCEPT !.results =
            Append(@, [test.results[1] EXCEPT !.n = 0])]
     ELSE \/ LET h == test.hashes[test.hashCounter + 1] IN
               test' = [test EXCEPT
                 !.hashCounter = @ + 1,
                 !.results = Append(@, Result("ChainID", 0, 1, TRUE, h,
                                              NoErr, NetworkName(h)))]
          \/ test' = [test EXCEPT !.results =
                 Append(@, Result("ChainID", 0, 1, FALSE, "none",
                                  Err("rpc", 0), "none"))]
  /\ UNCHANGED <<pc, loc, ret, txErrGroup, tasks, envVars, nTx, firstFail,
                 waitSnap, dup, reqs, client>>

\* Client.ChainID(): one getGenesisHash request; the mocked server answers
\* genesisHashes[hashCounter] and increments hashCounter.
ChainID ==
  /\ test.mode = "chainid"
  /\ test.hashCounter < Len(test.hashes)
  /\ Len(test.results) < MaxHashes
  /\ \/ LET h == test.hashes[test.hashCounter + 1] IN
          test' = [test EXCEPT
            !.hashCounter = @ + 1,
            !.results = Append(@, Result("ChainID", 0, 1, TRUE, h,
                                         NoErr, NetworkName(h)))]
     \/ test' = [test EXCEPT !.results =
            Append(@, Result("ChainID", 0, 1, FALSE, "none",
                             Err("rpc", 0), "none"))]
  /\ UNCHANGED <<pc, loc, ret, txErrGroup, tasks, envVars, nTx, firstFail,
                 waitSnap, dup, reqs, client>>

\* The query surface of the client.
QueryOps ==
  {"Balance", "SlotHeight", "LatestBlockhash", "GetFeeForMessage",
   "GetAccountInfoWithOpts", "SignatureStatuses"}

\* The status the node reports for a signature: none before the ledger has
\* executed the transaction, then the outcome of the execution.
StatusOf(sig) ==
  IF sig \in DOMAIN ledger /\ ledger[sig].level >= 1
  THEN ledger[sig].err ELSE "none"

\* The node's answer to a query; arg is the list of signatures of
\* SignatureStatuses.  The node produces one blockhash per slot.
Response(op, arg) ==
  CASE op = "Balance" -> balance
    [] op = "SlotHeight" -> blockhash
    [] op = "LatestBlockhash" -> blockhash
    [] op = "GetFeeForMessage" -> Fee
    [] op = "GetAccountInfoWithOpts" ->
         [lamports |-> 1, owner |-> "NativeLoader"]
    [] op = "SignatureStatuses" -> [i \in DOMAIN arg |-> StatusOf(arg[i])]

\* The node's answer to simulateTransaction: the error the execution of tx
\* would end with.
Simulation(tx) == IF tx.instr = "selfTransfer" THEN "ok" ELSE "err"

\* A query repeating its request once when the first one failed.
QueryRetry(op, arg, up) ==
  IF up
  THEN Result(op, 0, 1, TRUE, "none", NoErr, Response(op, arg))
  ELSE Result(op, 0, 2, FALSE, "none", NoErr, Response(op, arg))

\* A query-surface method: one RPC request, whose answer or error is
\* returned.
Query(op, arg, up) ==
  IF up
  THEN Result(op, 0, 1, TRUE, "none", NoErr, Response(op, arg))
  ELSE Result(op, 0, 1, FALSE, "none", Err("rpc", 0), "none")

\* SimulateTx returning the failure of the simulation as its error.
SimulateTxConflated(tx, k, up) ==
  IF ~up THEN Result("SimulateTx", k, 1, FALSE, "none", Err("rpc", 0), "none")
  ELSE IF Simulation(tx) = "err"
  THEN Result("SimulateTx", k, 1, TRUE, "err", Err("exec", 0), "none")
  ELSE Result("SimulateTx", k, 1, TRUE, "ok", NoErr, "ok")

\* Client.SimulateTx(ctx, tx, opts): the simulation result is the value,
\* the error is the transport's.
SimulateTx(tx, k, up) ==
  IF up
  THEN Result("SimulateTx", k, 1, TRUE, Simulation(tx), NoErr, Simulation(tx))
  ELSE Result("SimulateTx", k, 1, FALSE, "none", Err("rpc", 0), "none")

\* The calls of the reader test, in its order.
ReaderProgram ==
  <<"Balance", "SlotHeight", "SlotHeight", "LatestBlockhash",
    "GetFeeForMessage", "GetAccountInfoWithOpts">>

\* The calls of the writer test after createTx, in its order: the two
\* simulations, the two sends, the statuses of the two signatures.
WriterProgram ==
  <<[op |-> "SimulateTx", k |-> 1], [op |-> "SimulateTx", k |-> 2],
    [op |-> "SendTx", k |-> 1], [op |-> "SendTx", k |-> 2],
    [op |-> "SignatureStatuses", k |-> 0]>>

\* The next call of the reader test.
ReaderQuery ==
  /\ test.mode = "reader"
  /\ test.step \in DOMAIN ReaderProgram
  /\ \E up \in BOOLEAN :
       test' = [test EXCEPT
         !.step = @ + 1,
         !.results = Append(@, Query(ReaderProgram[test.step], <<>>, up))]
  /\ UNCHANGED <<pc, loc, ret, txErrGroup, tasks, envVars, nTx, firstFail,
                 waitSnap, dup, reqs, client>>

\* createTx(pubKey) and createTx(invalid destination): a self-transfer and
\* a transfer to an invalid destination, signed by the payer.
WriterCreateTx ==
  /\ test.mode = "writer"
  /\ test.step = 0
  /\ test' = [test EXCEPT
       !.step = 1,
       !.txs = <<Sign(NewTransaction("selfTransfer", blockhash, Payer),
                      TRUE).tx,
                 Sign(NewTransaction("badDest", blockhash, Payer),
                      TRUE).tx>>]
  /\ UNCHANGED <<pc, loc, ret, txErrGroup, tasks, envVars, nTx, firstFail,
                 waitSnap, dup, reqs, client>>

\* simSuccess, err := c.SimulateTx(...); simFail, err := c.SimulateTx(...)
WriterSimulateTx ==
  /\ test.mode = "writer"
  /\ test.step \in DOMAIN WriterProgram
  /\ WriterProgram[test.step].op = "SimulateTx"
  /\ LET k == WriterProgram[test.step].k IN
       \E up \in BOOLEAN :
         test' = [test EXCEPT
           !.step = @ + 1,
           !.results = Append(@, SimulateTx(test.txs[k], k, up))]
  /\ UNCHANGED <<pc, loc, ret, txErrGroup, tasks, envVars, nTx, firstFail,
                 waitSnap, dup, reqs, client>>

\* sigSuccess, err := c.SendTx(ctx, txSuccess); sigFail likewise.
WriterSendTx ==
  /\ test.mode = "writer"
  /\ test.step \in DOMAIN WriterProgram
  /\ WriterProgram[test.step].op = "SendTx"
  /\ LET k == WriterProgram[test.step].k
         sent == SendTx(test.txs[k], blockhash)
     IN \/ /\ ledger' = Submit(ledger, sent)
           /\ test' = [test EXCEPT
                !.step = @ + 1,
                !.txs[k] = sent,
                !.results = Append(@, Result("SendTx", k, 1, TRUE,
                              sent.sigs[1], NoErr, sent.sigs[1]))]
        \/ /\ test' = [test EXCEPT
                !.step = @ + 1,
                !.results = Append(@, Result("SendTx", k, 1, FALSE, "none",
                              Err("send", 0), NoSig))]
           /\ UNCHANGED ledger
  /\ UNCHANGED <<pc, loc, ret, txErrGroup, tasks, blockhash, balance, nTx,
                 firstFail, waitSnap, dup, reqs, client>>

\* statuses, err := c.SignatureStatuses(ctx, {sigSuccess, sigFail}), with
\* the signatures the two SendTx calls returned.
WriterSignatureStatuses ==
  /\ test.mode = "writer"
  /\ test.step \in DOMAIN WriterProgram
  /\ WriterProgram[test.step].op = "SignatureStatuses"
  /\ LET sigs == [k \in 1..2 |-> test.results[2 + k].val] IN
       \E up \in BOOLEAN :
         test' = [test EXCEPT
           !.step = @ + 1,
           !.results = Append(@, Query("SignatureStatuses", sigs, up))]
  /\ UNCHANGED <<pc, loc, ret, txErrGroup, tasks, envVars, nTx, firstFail,
                 waitSnap, dup, reqs, client>>

----------------------------------------------------------------------------
Init ==
  /\ pc = [c \in Callers |-> "idle"]
  /\ loc = [c \in Callers |-> EmptyLoc]
  /\ ret = [c \in Callers |-> NoRet]
  /\ txErrGroup = [wg |-> 0, err |-> NoErr]
  /\ tasks = <<>>
  /\ ledger = <<>>
  /\ blockhash = 1
  /\ balance = LAMPORTS_PER_SOL   \* the payer was funded by an airdrop
  /\ nTx = 0
  /\ firstFail = 0
  /\ waitSnap = [c \in Callers |-> 0]
  /\ reqs = [c \in Callers |-> NoReqs]
  /\ client = DefaultClient
  /\ test = NoTest
  /\ dup = NoDup

Next ==
  \/ \E c \in Callers : TXSyncCall(c)
  \/ \E c \in Callers : TXSyncSend(c)
  \/ \E c \in Callers : TXSyncSubscribe(c)
  \/ \E c \in Callers : TXSyncRecv(c)
  \/ \E c \in Callers : TXAsyncCall(c)
  \/ \E c \in Callers : TXAsyncSend(c)
  \/ \E c \in Callers : TXAsyncQueue(c)
  \/ \E t \in TaskIds : TaskSubscribe(t)
  \/ \E t \in TaskIds : TaskRecv(t)
  \/ \E c \in Callers : WaitForEventsCall(c)
  \/ \E c \in Callers : WaitForEventsWake(c)
  \/ \E c \in Callers : WaitForEventsReturn(c)
  \/ \E s \in DOMAIN ledger : Execute(s)
  \/ \E s \in DOMAIN ledger : Advance(s)
  \/ \E c \in Callers : WSFailSync(c)
  \/ \E t \in TaskIds : WSFailTask(t)

Spec == Init /\ [][Next]_vars

\* The scenarios that submit one self-transfer: a single TXSync by one
\* caller (mode "sync"), or dup.n concurrent SendTx of one signed
\* transaction (mode "dup").
InitDup ==
  /\ pc = [c \in Callers |-> "idle"]
  /\ loc = [c \in Callers |-> EmptyLoc]
  /\ ret = [c \in Callers |-> NoRet]
  /\ txErrGroup = [wg |-> 0, err |-> NoErr]
  /\ tasks = <<>>
  /\ ledger = <<>>
  /\ blockhash = 1
  /\ balance = LAMPORTS_PER_SOL
  /\ firstFail = 0
  /\ waitSnap = [c \in Callers |-> 0]
  /\ reqs = [c \in Callers |-> NoReqs]
  /\ client = DefaultClient
  /\ test = NoTest
  /\ \/ /\ dup = [NoDup EXCEPT !.mode = "sync"]
        /\ nTx = MaxTx - 1
     \/ /\ \E n \in 1..MaxDup : dup = [NoDup EXCEPT !.mode = "dup", !.n = n]
        /\ nTx = MaxTx

NextDup ==
  \/ TXSyncCall("g1")
  \/ TXSyncSend("g1")
  \/ TXSyncSubscribe("g1")
  \/ TXSyncRecv("g1")
  \/ WSFailSync("g1")
  \/ DupCreateTx
  \/ \E i \in 1..MaxDup : DupSendTx(i)
  \/ DupJoin
  \/ \E s \in DOMAIN ledger : Execute(s)
  \/ \E s \in DOMAIN ledger : Advance(s)
  \/ NewBlock

SpecDup == InitDup /\ [][NextDup]_vars

\* A caller that repeats TXSync after an error: up to MaxTx calls in
\* sequence while the node goes on producing blocks.
NextRetry ==
  \/ TXSyncCall("g1")
  \/ TXSyncSend("g1")
  \/ TXSyncSubscribe("g1")
  \/ TXSyncRecv("g1")
  \/ WSFailSync("g1")
  \/ \E s \in DOMAIN ledger : Execute(s)
  \/ \E s \in DOMAIN ledger : Advance(s)
  \/ NewBlock

SpecRetry == Init /\ [][NextRetry]_vars

\* Construction: NewClient on an endpoint list of up to MaxURLs URLs, and,
\* on the client it returned, asynchronous sends by one caller.
InitNew ==
  /\ pc = [c \in Callers |-> "idle"]
  /\ loc = [c \in Callers |-> EmptyLoc]
  /\ ret = [c \in Callers |-> NoRet]
  /\ txErrGroup = [wg |-> 0, err |-> NoErr]
  /\ tasks = <<>>
  /\ ledger = <<>>
  /\ blockhash = 1
  /\ balance = LAMPORTS_PER_SOL
  /\ nTx = 0
  /\ firstFail = 0
  /\ waitSnap = [c \in Callers |-> 0]
  /\ reqs = [c \in Callers |-> NoReqs]
  /\ dup = NoDup
  /\ test = NoTest
  /\ \E n \in 0..MaxURLs : \E u \in [1..n -> URLKinds] :
       client = [NoClient EXCEPT !.URLs = u]

NextNew ==
  \/ NewClient
  \/ client.state = "ok" /\ TXAsyncCall("g1")
  \/ client.state = "ok" /\ TXAsyncSend("g1")
  \/ client.state = "ok" /\ TXAsyncQueue("g1")
  \/ client.state = "ok" /\ \E t \in TaskIds : TaskSubscribe(t)
  \/ client.state = "ok" /\ \E t \in TaskIds : TaskRecv(t)
  \/ client.state = "ok" /\ WaitForEventsCall("g1")
  \/ client.state = "ok" /\ WaitForEventsWake("g1")
  \/ client.state = "ok" /\ WaitForEventsReturn("g1")
  \/ \E s \in DOMAIN ledger : Execute(s)
  \/ \E s \in DOMAIN ledger : Advance(s)

SpecNew == InitNew /\ [][NextNew]_vars

\* The tests of the pkg/solana client: four ChainID calls against the
\* mocked genesis-hash server, the reader test and the writer test against
\* a local node.
InitPkg ==
  /\ pc = [c \in Callers |-> "idle"]
  /\ loc = [c \in Callers |-> EmptyLoc]
  /\ ret = [c \in Callers |-> NoRet]
  /\ txErrGroup = [wg |-> 0, err |-> NoErr]
  /\ tasks = <<>>
  /\ ledger = <<>>
  /\ blockhash = 1
  /\ balance = LAMPORTS_PER_SOL
  /\ nTx = MaxTx
  /\ firstFail = 0
  /\ waitSnap = [c \in Callers |-> 0]
  /\ reqs = [c \in Callers |-> NoReqs]
  /\ dup = NoDup
  /\ client = DefaultClient
  /\ \/ \E h \in [1..MaxHashes -> GenesisHashes] :
          test = [NoTest EXCEPT !.mode = "chainid", !.hashes = h]
     \/ test = [NoTest EXCEPT !.mode = "writer"]
     \/ test = [NoTest EXCEPT !.mode = "reader", !.step = 1]

NextPkg ==
  \/ ChainID
  \/ ReaderQuery
  \/ WriterCreateTx
  \/ WriterSimulateTx
  \/ WriterSendTx
  \/ WriterSignatureStatuses
  \/ \E s \in DOMAIN ledger : Execute(s)
  \/ \E s \in DOMAIN ledger : Advance(s)
  \/ NewBlock

SpecPkg == InitPkg /\ [][NextPkg]_vars

\* The steps of calls in progress and of started goroutines are scheduled
\* by the Go runtime; whether a caller makes a call, and everything the
\* remote node does, carries no fairness.
FairSpec ==
  /\ Init
  /\ [][Next]_vars
  /\ \A c \in Callers :
       /\ WF_vars(TXSyncSend(c)) /\ WF_vars(TXSyncSubscribe(c))
       /\ WF_vars(TXSyncRecv(c))
       /\ WF_vars(TXAsyncSend(c)) /\ WF_vars(TXAsyncQueue(c))
       /\ WF_vars(WaitForEventsWake(c)) /\ WF_vars(WaitForEventsReturn(c))
  /\ \A t \in 1..MaxTx : WF_vars(TaskSubscribe(t)) /\ WF_vars(TaskRecv(t))

\* The signatures the callers' transactions can have.
AllSigs ==
  {SignatureOf(NewTransaction(i, b, Payer)) :
     i \in Instrs, b \in 1..MaxBlockhash}

\* The asynchronous path alone: TXAsync and WaitForEvents by the callers,
\* the confirmation tasks, and the node.
NextAsync ==
  \/ \E c \in Callers : TXAsyncCall(c)
  \/ \E c \in Callers : TXAsyncSend(c)
  \/ \E c \in Callers : TXAsyncQueue(c)
  \/ \E t \in TaskIds : TaskSubscribe(t)
  \/ \E t \in TaskIds : TaskRecv(t)
  \/ \E c \in Callers : WaitForEventsCall(c)
  \/ \E c \in Callers : WaitForEventsWake(c)
  \/ \E c \in Callers : WaitForEventsReturn(c)
  \/ \E s \in DOMAIN ledger : Execute(s)
  \/ \E s \in DOMAIN ledger : Advance(s)
  \/ \E t \in TaskIds : WSFailTask(t)

\* The asynchronous path with the Go runtime scheduling the calls in
\* progress and the goroutines, and with a node whose subscriptions all
\* deliver: it executes every transaction it accepted and carries it to
\* finality, unless the subscription reports an error first.
FairSpecDelivering ==
  /\ Init
  /\ [][NextAsync]_vars
  /\ \A c \in Callers :
       /\ WF_vars(TXAsyncSend(c)) /\ WF_vars(TXAsyncQueue(c))
       /\ WF_vars(WaitForEventsWake(c)) /\ WF_vars(WaitForEventsReturn(c))
  /\ \A t \in 1..MaxTx : WF_vars(TaskSubscribe(t)) /\ WF_vars(TaskRecv(t))
  /\ \A s \in AllSigs : WF_vars(Execute(s)) /\ WF_vars(Advance(s))

\* The calls that register confirmation tasks (TXAsync, Airdrop, Fund,
\* AirdropAddresses) next to WaitForEvents, the confirmation tasks, and the
\* node.
NextAir ==
  \/ \E c \in Callers : TXAsyncCall(c)
  \/ \E c \in Callers : TXAsyncSend(c)
  \/ \E c \in Callers : TXAsyncQueue(c)
  \/ \E c \in Callers : AirdropCall(c)
  \/ \E c \in Callers : AirdropQueue(c)
  \/ \E c \in Callers : FundCall(c)
  \/ \E c \in Callers : FundQueue(c)
  \/ \E c \in Callers : AirdropAddressesCall(c)
  \/ \E c \in Callers : AirdropAddressesStep(c)
  \/ \E c \in Callers : AirdropAddressesQueue(c)
  \/ \E c \in Callers : AirdropAddressesWait(c)
  \/ \E c \in Callers : AirdropAddressesReturn(c)
  \/ \E t \in TaskIds : TaskSubscribe(t)
  \/ \E t \in TaskIds : TaskRecv(t)
  \/ \E c \in Callers : WaitForEventsCall(c)
  \/ \E c \in Callers : WaitForEventsWake(c)
  \/ \E c \in Callers : WaitForEventsReturn(c)
  \/ \E s \in DOMAIN ledger : Execute(s)
  \/ \E s \in DOMAIN ledger : Advance(s)
  \/ \E t \in TaskIds : WSFailTask(t)

SpecAir == Init /\ [][NextAir]_vars

----------------------------------------------------------------------------
\* Properties

TransportKinds == {"rpc", "send", "subscribe", "recv"}

Returned(c, op) == pc[c] = "idle" /\ ret[c].op = op

\* The task failed: on-chain, or its subscription did.
TaskFailed(t) == tasks[t].res = "err" \/ tasks[t].err # NoErr

\* C1: TXSync returns nil only if the result it received carries no
\* on-chain error; if the result carries one, TXSync returns an error that
\* is neither nil nor a transport or signing error.
C1_TXSyncSurfacesExecError ==
  \A c \in Callers :
    Returned(c, "TXSync") /\ ret[c].res = "err" =>
      /\ ret[c].err # NoErr
      /\ ret[c].err[1] \notin TransportKinds \cup {"sign"}

\* C2: when WaitForEvents has returned (wg.Wait() has unblocked), every
\* task registered before it was invoked is done.
C2_WaitJoinsEarlierTasks ==
  \A c \in Callers :
    pc[c] = "wait_ret" \/ Returned(c, "WaitForEvents") =>
      \A t \in 1..waitSnap[c] : tasks[t].state = "done"

C2_Witness ==
  \E c \in Callers :
    /\ Returned(c, "WaitForEvents")
    /\ waitSnap[c] >= 2
    /\ \E t \in 1..waitSnap[c] : tasks[t].res # "none"

\* C3 (as stated): WaitForEvents, called after the N asynchronous sends of
\* the client, returns after the N registered tasks have resolved, with a
\* non-nil error iff some of them failed on-chain.
C3_ErrorIffOnChainFailure ==
  \A c \in Callers :
    Returned(c, "WaitForEvents") /\ waitSnap[c] = Len(tasks) =>
      /\ \A t \in 1..waitSnap[c] : tasks[t].state = "done"
      /\ ret[c].err # NoErr <=> \E t \in 1..waitSnap[c] : tasks[t].res = "err"

\* C3 (amended): WaitForEvents returns after the N registered tasks have
\* resolved; it returns a non-nil error if one of the N failed, on-chain or
\* by a subscribe/receive error, and only if some task of the client failed.
C3_ErrorIffTaskFailed ==
  \A c \in Callers :
    Returned(c, "WaitForEvents") =>
      /\ \A t \in 1..waitSnap[c] : tasks[t].state = "done"
      /\ (\E t \in 1..waitSnap[c] : TaskFailed(t)) => ret[c].err # NoErr
      /\ ret[c].err # NoErr => \E t \in TaskIds : TaskFailed(t)

C3_Witness ==
  \E c \in Callers :
    /\ Returned(c, "WaitForEvents")
    /\ waitSnap[c] = 2
    /\ ret[c].err # NoErr
    /\ \E t \in 1..2 : tasks[t].res = "err"
    /\ \E t \in 1..2 : tasks[t].res = "ok"

C5_DuplicatesShareSignature ==
  \A i \in DOMAIN dup.sender :
    dup.sender[i].pc = "done" /\ dup.sender[i].err = NoErr =>
      /\ dup.sender[i].sig = dup.tx.sigs[1]
      /\ \A j \in DOMAIN dup.sender :
           dup.sender[j].pc = "done" /\ dup.sender[j].err = NoErr =>
             dup.sender[j].sig = dup.sender[i].sig

C5_Witness ==
  /\ dup.hpc = "joined"
  /\ dup.n >= 3
  /\ \A i \in 1..dup.n : dup.sender[i].err = NoErr
  /\ blockhash > dup.tx.blockhash

\* C6: once the self-transfer is confirmed the payer has paid exactly one
\* fee, both when a TXSync submitted it and returned nil and when dup.n
\* SendTx calls submitted the same signed transaction.
C6_OneFeeCharged ==
  /\ \A c \in Callers :
       Returned(c, "TXSync") /\ ret[c].err = NoErr /\ ret[c].res = "ok" =>
         LAMPORTS_PER_SOL - balance = Fee
  /\ dup.hpc \in {"sending", "joined"}
     /\ Reached(SignatureOf(dup.tx), "confirmed") =>
       dup.initBal - balance = Fee

C6_Witness ==
  /\ dup.hpc = "joined"
  /\ dup.n >= 2
  /\ \A i \in 1..dup.n : dup.sender[i].err = NoErr
  /\ Reached(SignatureOf(dup.tx), "confirmed")
  /\ blockhash > dup.tx.blockhash

\* C7: no step of TXAsync waits: in every state a caller inside TXAsync, or
\* about to call it, can take its next step, whatever the tasks are doing.
C7_TXAsyncNeverBlocks ==
  \A c \in Callers :
    /\ pc[c] = "idle" /\ nTx < MaxTx => ENABLED TXAsyncCall(c)
    /\ pc[c] = "async_send" => ENABLED TXAsyncSend(c)
    /\ pc[c] = "async_queue" => ENABLED TXAsyncQueue(c)

C7_Witness ==
  /\ Len(tasks) = 1
  /\ tasks[1].state # "done"
  /\ \E c \in Callers : Returned(c, "TXAsync") /\ ret[c].err = NoErr
  /\ \E c \in Callers : pc[c] = "async_queue"

\* C8: a TXAsync whose blockhash fetch, signing and submit succeeded
\* returns nil, and the error of a confirmation task is returned by
\* WaitForEvents only.
C8_ConfirmationErrorsDeferred ==
  [][\A c \in Callers :
       /\ pc[c] = "async_queue" /\ pc'[c] # "async_queue" =>
            ret'[c].op = "TXAsync" /\ ret'[c].err = NoErr
       /\ ret'[c].err[2] # 0 => ret'[c].op = "WaitForEvents"]_vars

C8_Witness ==
  \E c, d \in Callers :
    /\ Returned(c, "TXAsync") /\ ret[c].err = NoErr
    /\ Returned(d, "WaitForEvents") /\ ret[d].err # NoErr
    /\ Len(tasks) = 1

\* C9: a non-nil error returned by WaitForEvents is the error of the task
\* whose failure reached the group first.
C9_FirstErrorReturned ==
  \A c \in Callers :
    Returned(c, "WaitForEvents") /\ ret[c].err # NoErr =>
      firstFail \in TaskIds /\ ret[c].err = tasks[firstFail].err

C9_Witness ==
  \E c \in Callers :
    /\ Returned(c, "WaitForEvents")
    /\ firstFail = 2
    /\ tasks[1].err # NoErr
    /\ ret[c].err = tasks[2].err

\* C10: a TXSync that waits in Recv, and a task that waits in Recv,
\* eventually terminate.
C10_EveryWaitTerminates ==
  /\ \A c \in Callers : (pc[c] = "sync_recv") ~> (pc[c] = "idle")
  /\ \A t \in 1..MaxTx :
       (Len(tasks) >= t /\ tasks[t].state = "recv")
         ~> (Len(tasks) >= t /\ tasks[t].state = "done")

\* C11: TXAsync returns the error of the submit RPC only after it has
\* issued the submit more than once; one failed submit is retried.
C11_AsyncSubmitRetried ==
  \A c \in Callers :
    Returned(c, "TXAsync") /\ ret[c].err[1] = "send" => reqs[c].send >= 2

\* C12: the step in which TXSync or TXAsync finds no key for the payer
\* returns the signing error at once: signing ran once, no submit and no
\* subscription were issued, and the ledger, the tasks and the group are
\* as before.
C12_SigningFailureIsImmediate ==
  [][\A c \in Callers :
       pc[c] = "idle" /\ nTx' = nTx + 1 /\ ret'[c].err = Err("sign", 0) =>
         /\ pc'[c] = "idle"
         /\ ret'[c].op \in {"TXSync", "TXAsync"}
         /\ reqs'[c] = [NoReqs EXCEPT !.blockhash = 1, !.sign = 1]
         /\ tasks' = tasks
         /\ txErrGroup' = txErrGroup
         /\ ledger' = ledger]_vars

C12_Witness ==
  \E c, d \in Callers :
    /\ Returned(c, "TXAsync") /\ ret[c].err = Err("sign", 0)
    /\ Returned(d, "TXSync") /\ ret[d].err = Err("sign", 0)
    /\ tasks = <<>>
    /\ ledger = <<>>

\* C13: a TXSync call issues each of its requests at most once, and when
\* a request failed the call returned that error without issuing a later
\* one.
C13_TXSyncNoRetry ==
  \A c \in Callers :
    pc[c] \in {"sync_send", "sync_subscribe", "sync_recv"}
    \/ Returned(c, "TXSync") =>
      /\ reqs[c].blockhash <= 1
      /\ reqs[c].send <= 1
      /\ reqs[c].subscribe <= 1
      /\ Returned(c, "TXSync") /\ ret[c].err # NoErr =>
           reqs[c] =
             CASE ret[c].err[1] = "rpc" -> [NoReqs EXCEPT !.blockhash = 1]
               [] ret[c].err[1] = "sign" ->
                    [NoReqs EXCEPT !.blockhash = 1, !.sign = 1]
               [] ret[c].err[1] = "send" ->
                    [NoReqs EXCEPT !.blockhash = 1, !.sign = 1, !.send = 1]
               [] ret[c].err[1] = "subscribe" ->
                    [NoReqs EXCEPT !.blockhash = 1, !.sign = 1, !.send = 1,
                                   !.subscribe = 1]
               [] ret[c].err[1] = "recv" ->
                    [NoReqs EXCEPT !.blockhash = 1, !.sign = 1, !.send = 1,
                                   !.subscribe = 1, !.unsub = 1]

C13_Witness ==
  \E c, d \in Callers :
    /\ Returned(c, "TXSync") /\ ret[c].err = Err("subscribe", 0)
    /\ reqs[c].subscribe = 1
    /\ Returned(d, "TXSync") /\ ret[d].err = Err("send", 0)
    /\ reqs[d].send = 1

\* C14: in the writer test every answered call reports the invalid
\* destination in its value and not as its error: the simulation of the
\* failing transfer has a nil error and a non-nil simulation error, its
\* SendTx returns its signature and a nil error, and the status of that
\* signature, once the ledger has executed it, carries an error; the
\* self-transfer has a nil simulation error and a nil status error.
C14_ExecutionNotTransportFailure ==
  \A i \in DOMAIN test.results :
    LET r == test.results[i] IN
    test.mode = "writer" /\ r.answered =>
      /\ r.err = NoErr
      /\ r.op = "SimulateTx" =>
           r.val = IF test.txs[r.k].instr = "badDest" THEN "err" ELSE "ok"
      /\ r.op = "SendTx" =>
           r.val # NoSig /\ r.val = SignatureOf(test.txs[r.k])
      /\ r.op = "SignatureStatuses" =>
           \A k \in DOMAIN r.val :
             r.val[k] # "none" =>
               r.val[k] =
                 IF test.txs[k].instr = "badDest" THEN "err" ELSE "ok"

C14_Witness ==
  /\ test.mode = "writer"
  /\ Len(test.results) = 5
  /\ \A i \in 1..5 : test.results[i].answered
  /\ test.results[2].val = "err"
  /\ test.results[5].val = <<"ok", "err">>

\* C15: a ChainID call whose query was answered returns no error and the
\* name of the network the answered hash belongs to, localnet for a hash
\* of none of the three networks; it returns an error exactly when the
\* query failed.
C15_ChainIDNames ==
  \A i \in DOMAIN test.results :
    LET r == test.results[i] IN
    r.op = "ChainID" =>
      /\ r.err # NoErr <=> ~r.answered
      /\ r.answered =>
           r.val = CASE r.got = DevnetGenesisHash -> "devnet"
                     [] r.got = TestnetGenesisHash -> "testnet"
                     [] r.got = MainnetGenesisHash -> "mainnet"
                     [] OTHER -> "localnet"

C15_Witness ==
  /\ test.mode = "chainid"
  /\ Len(test.results) = 4
  /\ [i \in 1..4 |-> test.results[i].val]
       = <<"devnet", "testnet", "mainnet", "localnet">>
  /\ test.results[4].got = "GH7ome3EiwEr7tu9JuTh2dpYWBJK3z69Xm1ZE3MEE6JC"

\* The answered results of rs, in order.
AnsweredResults(rs) == SelectSeq(rs, LAMBDA r : r.answered)

\* C16: every ChainID call issues one query of its own: the answered
\* calls received, in order, the hashes the server holds, one per call,
\* and two calls return the same name only as far as their hashes decide.
C16_ChainIDRequeries ==
  test.mode = "chainid" =>
    LET a == AnsweredResults(test.results) IN
    /\ \A i \in DOMAIN test.results : test.results[i].n = 1
    /\ Len(a) = test.hashCounter
    /\ \A j \in DOMAIN a : a[j].got = test.hashes[j]
    /\ \A i, j \in DOMAIN a : a[i].got = a[j].got => a[i].val = a[j].val

C16_Witness ==
  /\ test.mode = "chainid"
  /\ Len(test.results) = 3
  /\ test.results[1].val = "mainnet"
  /\ ~test.results[2].answered
  /\ test.results[3].val = "localnet"

\* C17: a SendTx call leaves the shared transaction as it was, and what
\* the node receives from it is that transaction.
C17_SendTxKeepsTransaction ==
  [][dup.hpc = "sending" =>
       /\ dup'.tx = dup.tx
       /\ \A s \in DOMAIN ledger' : ledger'[s].tx = dup.tx]_vars

C17_Witness ==
  /\ dup.hpc = "sending"
  /\ dup.n = 3
  /\ dup.sender[1].pc = "done" /\ dup.sender[1].err = NoErr
  /\ dup.sender[3].pc = "done" /\ dup.sender[3].err = NoErr
  /\ dup.sender[2].pc = "sleep"
  /\ blockhash > dup.tx.blockhash
  /\ Reached(SignatureOf(dup.tx), "finalized")

\* C18: NewClient on an endpoint list that is too short or holds a
\* malformed URL returns an error and no client.
C18_BadConfigFailsConstruction ==
  /\ client.state # "none"
  /\ \/ Len(client.URLs) < 2
     \/ \E i \in DOMAIN client.URLs : client.URLs[i] = "malformed"
  => client.state = "error" /\ client.ws = "none"

\* C19: NewClient returns a client only with the websocket connected, and
\* that client has an empty error group and no confirmation task; when the
\* websocket endpoint does not accept the connection it returns the error.
C19_EagerSubscriptionConnect ==
  [][client.state = "none" /\ client'.state # "none"
     /\ Len(client.URLs) >= 2 =>
       IF client.URLs[2] = "up"
       THEN /\ client'.state = "ok"
            /\ client'.ws = "connected"
            /\ tasks' = <<>>
            /\ txErrGroup' = [wg |-> 0, err |-> NoErr]
       ELSE client'.state = "error" /\ client'.ws = "none"]_vars

C19_Witness ==
  /\ client.state = "ok"
  /\ client.ws = "connected"
  /\ client.URLs[1] = "down"
  /\ Len(tasks) = 2
  /\ Returned("g1", "WaitForEvents")

\* C20: a call of the query surface issues one request and returns its
\* answer, or, when the request failed, the transport's error and no
\* value; the step changes nothing but the caller's result.
C20_QueryOnceNoRetry ==
  [][test'.results # test.results
     /\ test'.results[Len(test'.results)].op \in QueryOps =>
       LET r == test'.results[Len(test'.results)] IN
       /\ r.n = 1
       /\ r.answered => r.err = NoErr
       /\ ~r.answered => r.err[1] \in TransportKinds /\ r.val = "none"
       /\ UNCHANGED <<txErrGroup, tasks, client, ledger, balance,
                      blockhash>>]_vars

C20_Witness ==
  /\ test.mode = "reader"
  /\ Len(test.results) = 6
  /\ test.results[1].answered /\ test.results[1].val = LAMPORTS_PER_SOL
  /\ ~test.results[2].answered
  /\ test.results[3].answered /\ test.results[3].val = 2
  /\ ~test.results[5].answered

\* C21: a TXSync call is at its submit only with the blockhash fetched and
\* the transaction assembled and signed, at its subscribe only with the
\* submit answered by the signature it then subscribes for, and at its
\* receive only with that subscription opened; a call that returned the
\* error of a step has issued no later step.
C21_TXSyncStepOrder ==
  \A c \in Callers :
    /\ pc[c] = "sync_send" =>
         /\ reqs[c] = [NoReqs EXCEPT !.blockhash = 1, !.sign = 1]
         /\ loc[c].tx.blockhash \in 1..blockhash
         /\ loc[c].tx.sigs = <<SignatureOf(loc[c].tx)>>
         /\ loc[c].sig = NoSig /\ loc[c].sub = "none"
    /\ pc[c] = "sync_subscribe" =>
         /\ reqs[c] = [NoReqs EXCEPT !.blockhash = 1, !.sign = 1, !.send = 1]
         /\ loc[c].sig = loc[c].tx.sigs[1]
         /\ loc[c].sig \in DOMAIN ledger
         /\ loc[c].sub = "none"
    /\ pc[c] = "sync_recv" =>
         /\ reqs[c] = [NoReqs EXCEPT !.blockhash = 1, !.sign = 1, !.send = 1,
                                     !.subscribe = 1]
         /\ loc[c].sig = loc[c].tx.sigs[1]
         /\ loc[c].sig \in DOMAIN ledger
         /\ loc[c].sub \in {loc[c].commitment, "err"}
    /\ Returned(c, "TXSync") =>
         /\ ret[c].err[1] = "rpc" =>
              reqs[c].sign = 0 /\ reqs[c].send = 0 /\ reqs[c].subscribe = 0
         /\ ret[c].err[1] = "sign" =>
              reqs[c].send = 0 /\ reqs[c].subscribe = 0
         /\ ret[c].err[1] = "send" => reqs[c].subscribe = 0
         /\ reqs[c].subscribe > 0 => reqs[c].send > 0
         /\ reqs[c].unsub > 0 => reqs[c].subscribe > 0

C21_Witness ==
  \E c, d \in Callers :
    /\ pc[c] = "sync_recv" /\ loc[c].commitment = "finalized"
    /\ pc[d] = "sync_subscribe"
    /\ loc[c].sig # loc[d].sig

\* C23: whatever the order in which the tasks finished, a WaitForEvents
\* that joined all of them returns nil exactly when none of them failed.
C23_ResultIndependentOfOrder ==
  \A c \in Callers :
    /\ Returned(c, "WaitForEvents")
    /\ waitSnap[c] = Len(tasks)
    => (ret[c].err = NoErr <=> \A t \in TaskIds : tasks[t].err = NoErr)

\* The task started second has finished, the one started first has not.
C23_Witness ==
  /\ Len(tasks) = 2
  /\ tasks[2].state = "done" /\ tasks[2].res = "err"
  /\ tasks[1].state = "recv"
  /\ \E c \in Callers : pc[c] = "wait" /\ waitSnap[c] = 2

\* C24: the error the group holds is never replaced; a WaitForEvents that
\* is still waiting while the group holds an error wakes up seeing it, and
\* returns it: the error of the task that failed first.
C24_ErrorNeverCleared ==
  [][/\ txErrGroup.err # NoErr => txErrGroup'.err = txErrGroup.err
     /\ \A c \in Callers :
          /\ pc[c] = "wait" /\ pc'[c] = "wait_ret"
             /\ txErrGroup.err # NoErr => loc'[c].seen = txErrGroup.err
          /\ pc[c] = "wait_ret" /\ pc'[c] = "idle"
             /\ loc[c].seen # NoErr =>
               /\ ret'[c].err = loc[c].seen
               /\ ret'[c].err = tasks[firstFail].err]_vars

C24_Witness ==
  \E c, d \in Callers :
    /\ Returned(d, "WaitForEvents") /\ waitSnap[d] = 1
    /\ Returned(c, "WaitForEvents") /\ waitSnap[c] = 2
    /\ firstFail = 1
    /\ tasks[2].res = "ok" /\ tasks[2].err = NoErr
    /\ ret[c].err = tasks[1].err /\ ret[d].err = tasks[1].err

\* C25: when TXSync returns the error of its subscribe or receive step,
\* the node has accepted the transaction, and the return takes nothing
\* back: the transaction is in the ledger, executed or still to execute.
C25_ErrorAfterAcceptedSubmit ==
  [][\A c \in Callers :
       /\ pc[c] # "idle" /\ pc'[c] = "idle"
       /\ ret'[c].op = "TXSync"
       /\ ret'[c].err[1] \in {"subscribe", "recv"}
       => /\ loc[c].tx.sigs[1] \in DOMAIN ledger'
          /\ ledger' = ledger
          /\ balance' = balance]_vars

\* The retry after such an error, made over a fresh blockhash, executed as
\* well as the first transaction: two fees are paid.
C25_Witness ==
  /\ Returned("g1", "TXSync")
  /\ ret["g1"].err[1] \in {"subscribe", "recv"}
  /\ nTx = 2
  /\ \E s1, s2 \in DOMAIN ledger :
       /\ ledger[s1].tx.instr = "selfTransfer"
       /\ ledger[s2].tx.instr = "selfTransfer"
       /\ ledger[s1].tx.blockhash < ledger[s2].tx.blockhash
       /\ ledger[s1].level >= 1 /\ ledger[s2].level >= 1
  /\ balance = LAMPORTS_PER_SOL - 2 * Fee

\* C27: with subscriptions that all deliver, a caller waiting in
\* WaitForEvents eventually has its call returned, and outstanding tasks
\* eventually all finish.
C27_WaitForEventsReturns ==
  /\ \A c \in Callers :
       (pc[c] \in {"wait", "wait_ret"}) ~> Returned(c, "WaitForEvents")
  /\ (txErrGroup.wg > 0) ~> (txErrGroup.wg = 0)
  /\ <>[](\A t \in TaskIds : tasks[t].state = "done")

C27_Witness ==
  \E c \in Callers :
    /\ Returned(c, "WaitForEvents") /\ waitSnap[c] = 2
    /\ txErrGroup.wg = 0
    /\ tasks[1].err[1] = "recv"
    /\ tasks[2].res = "ok"
    /\ ledger[tasks[2].sig].level = 3

C30_TXSyncLeavesGroupAlone ==
  [][\A c \in Callers :
       \/ pc[c] \in {"sync_send", "sync_subscribe", "sync_recv"}
          /\ pc'[c] # pc[c]
       \/ pc[c] = "idle" /\ pc'[c] = "sync_send"
       \/ pc[c] = "idle" /\ nTx' = nTx + 1 /\ ret'[c].op = "TXSync"
       => UNCHANGED <<txErrGroup, tasks, firstFail>>]_vars

C30_Witness ==
  \E c, d \in Callers :
    /\ Returned(c, "TXSync") /\ ret[c].err = Err("recv", 0)
    /\ Returned(d, "WaitForEvents") /\ ret[d].err = NoErr
    /\ waitSnap[d] = 1
    /\ tasks[1].res = "ok"

\* The positions at which a call has its signature from the node and has
\* queueTX next.
QueuePcs == {"async_queue", "airdrop_queue", "fund_queue", "aa_queue"}

\* The tracked tasks that are outstanding.
Outstanding == {t \in TaskIds : tasks[t].state # "done"}

C26_WaitsForEarlierTasks ==
  [][\A c \in Callers :
       /\ pc[c] \in {"wait", "aa_wait"}
       /\ pc'[c] \in {"wait_ret", "aa_wait_ret"}
       => /\ waitSnap[c] <= Len(tasks)
          /\ \A t \in 1..waitSnap[c] : tasks[t].state = "done"]_vars

\* The wait of c's WaitForEvents has unblocked on the one task registered
\* before it was invoked and the call is at its return, while the task an
\* Airdrop of the other caller registered since is pending.
C26_Witness ==
  \E c \in Callers :
    /\ pc[c] = "wait_ret"
    /\ waitSnap[c] = 1
    /\ Len(tasks) = 2
    /\ tasks[1].state = "done"
    /\ tasks[2].state # "done"
    /\ \E d \in Callers \ {c} :
         Returned(d, "Airdrop") /\ ret[d].err = NoErr

\* C28: AirdropAddresses returns nil only after an airdrop was requested
\* for every given address and each of them was confirmed without error;
\* a malformed address or a failed request is returned from the loop,
\* without WaitForEvents, and the tasks of the airdrops requested before
\* stay in the group as they are.
C28_AirdropAddressesReturn ==
  [][\A c \in Callers :
       /\ pc[c] \in {"aa_loop", "aa_queue", "aa_wait", "aa_wait_ret"}
       /\ pc'[c] = "idle"
       => /\ ret'[c].op = "AirdropAddresses"
          /\ IF ret'[c].err = NoErr
             THEN /\ pc[c] = "aa_wait_ret"
                  /\ Len(loc[c].mine) = Len(loc[c].addrs)
                  /\ \A a \in DOMAIN loc[c].addrs : loc[c].addrs[a] = "valid"
                  /\ \A k \in DOMAIN loc[c].mine :
                       LET t == loc[c].mine[k] IN
                         /\ tasks[t].state = "done"
                         /\ tasks[t].err = NoErr
                         /\ tasks[t].res = "ok"
                         /\ Reached(tasks[t].sig, "confirmed")
             ELSE IF ret'[c].err[1] \in {"parse", "rpc"}
             THEN /\ pc[c] = "aa_loop"
                  /\ loc[c].i <= Len(loc[c].addrs)
                  /\ Len(loc[c].mine) = loc[c].i - 1
                  /\ tasks' = tasks
                  /\ txErrGroup' = txErrGroup
             ELSE pc[c] = "aa_wait_ret"]_vars

\* AirdropAddresses has returned the parse error of its second address
\* while the task of its first airdrop is outstanding in the group.
C28_Witness ==
  \E c \in Callers :
    /\ Returned(c, "AirdropAddresses")
    /\ ret[c].err = Err("parse", 0)
    /\ Len(tasks) = 1
    /\ tasks[1].sig[1] = Faucet
    /\ tasks[1].state # "done"
    /\ txErrGroup.wg = 1

\* AirdropAddresses has returned nil for two addresses.
C28_WitnessNil ==
  \E c \in Callers :
    /\ Returned(c, "AirdropAddresses")
    /\ ret[c].err = NoErr
    /\ Len(tasks) = 2
    /\ \A t \in TaskIds : tasks[t].sig[1] = Faucet /\ tasks[t].state = "done"

====
